---- MODULE Spec2Model ----
(***************************************************************************)
(* Fixed-step solvers for y'(t) = f(t, y), y(t0) = y0 over [a, b]          *)
(* (src/src/euler.py) and the step-length comparison harness               *)
(* (src/src/analysis.py).                                                  *)
(*                                                                         *)
(* Arithmetic is exact.  Every time, step length and y value is a whole    *)
(* number of one fixed unit, and step lengths are even numbers of units so *)
(* that 0.5 * h is a whole number of units too.  Points of the harness's   *)
(* linspace axis are kept as fractions num/den.                            *)
(***************************************************************************)
EXTENDS Integers, Sequences, FiniteSets

VARIABLES pc, call, method, f, a, b, t0, y0, h, threshold, epochs, result

vars == <<pc, call, method, f, a, b, t0, y0, h, threshold, epochs, result>>

(* ------------------------------ bounds -------------------------------- *)
MaxA == 1
MaxT == 8
MaxHalfStep == 2
MaxC == 1
MaxY0 == 2
MaxThreshold == 3
MaxEpochs == 2
MaxCols == 2

Lefts == 0..MaxA
Times == 0..MaxT
\* step lengths handed to a solver: negative, zero and positive
StepLens == {2 * k : k \in -1..MaxHalfStep}
PosStepLens == {2 * k : k \in 1..MaxHalfStep}
Y0s == 1..MaxY0
Thresholds == {0, 1, MaxThreshold}
Epochs == 0..MaxEpochs

\* derivative functions f(t, y): the constants c, -y (decay) and t
Derivatives ==
    {[kind |-> "const", c |-> c] : c \in -1..MaxC}
        \cup {[kind |-> "decay", c |-> 0], [kind |-> "time", c |-> 0]}

Methods == {"euler_explicit", "euler_implicit", "euler_trapezium", "euler_improved"}
Iterative == {"euler_implicit", "euler_trapezium"}

(* ----------------------------- arithmetic ----------------------------- *)
Abs(x) == IF x < 0 THEN -x ELSE x

\* mutant of RoundHalfEven: int(n / d) for n / d >= 0, the count truncated
\* instead of rounded
RoundDown(n, d) ==
    IF d < 0 THEN (-n) \div (-d) ELSE n \div d

\* round(n / d) of Python 3: nearest integer, a tie goes to the even one
RoundHalfEven(n, d) ==
    LET s  == IF d < 0 THEN -1 ELSE 1
        nn == s * n
        dd == s * d
        q  == nn \div dd
        r  == nn % dd
    IN  IF 2 * r < dd THEN q
        ELSE IF 2 * r > dd THEN q + 1
        ELSE IF q % 2 = 0 THEN q ELSE q + 1

\* list.reverse()
Reverse(s) == [i \in 1..Len(s) |-> s[Len(s) + 1 - i]]

\* the call f(t, y)
F(fn, t, y) ==
    CASE fn.kind = "const" -> fn.c
      [] fn.kind = "decay" -> -y
      [] fn.kind = "time"  -> t

\* the arguments of a solver call
Args(fn, aa, bb, tt, yy, hh, thr, ep) ==
    [f |-> fn, a |-> aa, b |-> bb, t0 |-> tt, y0 |-> yy, h |-> hh,
     threshold |-> thr, epochs |-> ep]

(* ------------------------------ one step ------------------------------ *)
\* d = 1 is the forward loop, d = -1 the backward loop: the two loops of a
\* solver differ only in the sign of h.

\* y_ = yi + h * f(ti, yi)   (yi - h * f(ti, yi) backward)
ExplicitUpdate(p, ti, yi, d) == yi + d * p.h * F(p.f, ti, yi)

\* mutant of Iterate: the trapezium rule without its 0.5
IterateNoHalf(m, p, ti, yi, d, y_) ==
    IF m = "euler_implicit"
    THEN yi + d * p.h * F(p.f, ti + d * p.h, y_)
    ELSE yi + d * p.h * (F(p.f, ti, yi) + F(p.f, ti + d * p.h, y_))

\* y__ of one pass of the fixed-point loop
Iterate(m, p, ti, yi, d, y_) ==
    IF m = "euler_implicit"
    THEN yi + d * p.h * F(p.f, ti + d * p.h, y_)
    ELSE yi + d * (p.h \div 2) * (F(p.f, ti, yi) + F(p.f, ti + d * p.h, y_))

\* mutant of LoopExit: the epoch cap taken one pass late
LoopExitLate(p, y_, y__, epoch) ==
    Abs(y__ - y_) < p.threshold \/ epoch > p.epochs + 1

\* the test that leaves the fixed-point loop
LoopExit(p, y_, y__, epoch) ==
    Abs(y__ - y_) < p.threshold \/ epoch > p.epochs

\* The one element of a one-element set.  The({e(x) : x \in {v}}) is e with
\* x standing for the value of v, worked out once.
The(S) == CHOOSE x \in S : TRUE

\* the while True loop: epoch0 is the count before this pass
RECURSIVE FixedPoint(_, _, _, _, _, _, _)
FixedPoint(m, p, ti, yi, d, y_, epoch0) ==
    The({ IF LoopExit(p, y_, y__, epoch0 + 1)
          THEN [y_ |-> y_, y__ |-> y__, epoch |-> epoch0 + 1,
                converged |-> Abs(y__ - y_) < p.threshold]
          ELSE FixedPoint(m, p, ti, yi, d, y__, epoch0 + 1)
        : y__ \in {Iterate(m, p, ti, yi, d, y_)} })

\* the value a loop appends after the fixed-point loop has ended
Accepted(fp) == fp.y_

\* one pass of a solver's for loop from (ti, yi): the sample it appends,
\* with what the loop computed on the way (epoch, y__, evaluations of f)
Step(m, p, ti, yi, d) ==
    IF m = "euler_explicit"
    THEN [t |-> ti + d * p.h, y |-> ExplicitUpdate(p, ti, yi, d),
          y__ |-> 0, epoch |-> 0, converged |-> TRUE, evals |-> 1, d |-> d]
    ELSE IF m = "euler_improved"
    THEN The({ [t |-> ti + d * p.h,
                y |-> yi + d * (p.h \div 2)
                             * (F(p.f, ti, yi) + F(p.f, ti + d * p.h, y_)),
                y__ |-> 0, epoch |-> 0, converged |-> TRUE, evals |-> 3,
                d |-> d]
             : y_ \in {ExplicitUpdate(p, ti, yi, d)} })
    ELSE The({ [t |-> ti + d * p.h, y |-> Accepted(fp),
                y__ |-> fp.y__, epoch |-> fp.epoch,
                converged |-> fp.converged,
                evals |-> IF m = "euler_implicit" THEN 1 + fp.epoch
                          ELSE 1 + 2 * fp.epoch,
                d |-> d]
             : fp \in {FixedPoint(m, p, ti, yi, d,
                                  ExplicitUpdate(p, ti, yi, d), 0)} })

\* for _ in range(n) from cur = (ti, yi): the samples in the order the loop
\* appends them
RECURSIVE Walk(_, _, _, _, _)
Walk(m, p, cur, d, n) ==
    IF n <= 0 THEN <<>>
    ELSE The({ <<s>> \o Walk(m, p, s, d, n - 1)
             : s \in {Step(m, p, cur.t, cur.y, d)} })

(* ------------------------------ a solver ------------------------------ *)
\* range(round((t0 - a) / h)) and range(round((b - t0) / h))
BackwardSteps(p) == RoundHalfEven(p.t0 - p.a, p.h)
ForwardSteps(p) == RoundHalfEven(p.b - p.t0, p.h)

\* ti, yi = t0, y0
Start(p) == [t |-> p.t0, y |-> p.y0]

\* (ti, yi) when the backward loop has ended
LoopEnd(p, back) == IF back = <<>> THEN Start(p) ELSE back[Len(back)]

\* mutant of ForwardStart: the forward loop goes on from where the backward
\* loop left off
ForwardStartNoReset(p, cur) == cur

\* ti, yi = t0, y0 before the forward loop; cur is where the backward loop
\* left off
ForwardStart(p, cur) == Start(p)

\* mutant of Prepended: the backward samples prepended as they were appended
PrependedUnreversed(back) == back

\* t_temp.reverse(), y_temp.reverse()
Prepended(back) == Reverse(back)

\* what a call that raises leaves behind: no trajectory
Raised(e) ==
    [status |-> e, t |-> <<>>, y |-> <<>>, steps |-> <<>>, evals |-> 0]

RECURSIVE SumEvals(_)
SumEvals(steps) ==
    IF steps = <<>> THEN 0 ELSE Head(steps).evals + SumEvals(Tail(steps))

\* np.array(t_list), np.array(y_list): the backward samples as prepended,
\* then (t0, y0), then the forward samples.  steps lists the loop passes in
\* the order they ran, evals counts the calls of f.
Returned(p, back, fwd) ==
    [status |-> "ok",
     t |-> [i \in 1..Len(back) |-> Prepended(back)[i].t] \o <<p.t0>>
               \o [i \in 1..Len(fwd) |-> fwd[i].t],
     y |-> [i \in 1..Len(back) |-> Prepended(back)[i].y] \o <<p.y0>>
               \o [i \in 1..Len(fwd) |-> fwd[i].y],
     steps |-> back \o fwd,
     evals |-> SumEvals(back) + SumEvals(fwd)]

\* the body shared by euler_explicit, euler_implicit, euler_trapezium and
\* euler_improved
Solver(m, p) ==
    IF ~(p.a <= p.t0 /\ p.t0 <= p.b) THEN Raised("AssertionError")
    ELSE IF p.h = 0 THEN Raised("ZeroDivisionError")
    ELSE The({ The({ Returned(p, back, fwd)
                   : fwd \in {Walk(m, p, ForwardStart(p, LoopEnd(p, back)),
                                   1, ForwardSteps(p))} })
             : back \in {Walk(m, p, Start(p), -1, BackwardSteps(p))} })

(* ---------------------------- the harness ---------------------------- *)
\* h = (0.01, 0.005, 0.001), in units of 0.0005
DefaultStepLens == <<20, 10, 2>>

\* np.linspace(aa, bb, n): n evenly spaced points from aa to bb, each kept
\* as the fraction num / den
Linspace(aa, bb, n) ==
    [i \in 1..n |-> [num |-> aa * (IF n > 1 THEN n - 1 ELSE 1)
                               + (i - 1) * (bb - aa),
                     den |-> IF n > 1 THEN n - 1 ELSE 1]]

\* np.nan, and a cell that holds the value v
NaN == <<>>
Cell(v) == <<v>>

\* the row that sample j of a trajectory with step length hi is written to
Row(j, hi, space) == RoundHalfEven(j * hi, space)

\* for j in range(0, len(y)): l[round(j * h[i] / space)] = y[j], from
\* sample j (counted from 0) on; a negative index counts from the end
RECURSIVE Fill(_, _, _, _, _)
Fill(l, y, j, hi, space) ==
    IF j >= Len(y) THEN [status |-> "ok", l |-> l]
    ELSE The({ IF r >= Len(l) \/ r < -Len(l)
               THEN [status |-> "IndexError", l |-> <<>>]
               ELSE Fill([l EXCEPT ![(IF r < 0 THEN r + Len(l) ELSE r) + 1]
                                       = Cell(y[j + 1])],
                         y, j + 1, hi, space)
             : r \in {Row(j, hi, space)} })

\* what a call of the harness that raises leaves behind: no table
NoTable(e) == [status |-> e, t |-> <<>>, cols |-> <<>>]

\* df[name] = l
SetColumn(cols, name, l) ==
    [c \in DOMAIN cols \cup {name} |-> IF c = name THEN l ELSE cols[c]]

\* for i in range(len(h)), from column i on: df is the table so far
RECURSIVE Columns(_, _, _, _, _, _)
Columns(df, m, p, hs, i, space) ==
    IF i > Len(hs) THEN df
    ELSE The({ IF tr.status # "ok" THEN NoTable(tr.status)
               ELSE The({ IF w.status # "ok" THEN NoTable(w.status)
                          ELSE Columns([df EXCEPT
                                          !.cols = SetColumn(df.cols, hs[i], w.l)],
                                       m, p, hs, i + 1, space)
                        : w \in {Fill([r \in 1..Len(df.t) |-> NaN],
                                      tr.y, 0, hs[i], space)} })
             : tr \in {Solver(m, [p EXCEPT !.h = hs[i]])} })

\* the step lengths the harness works with
StepLensUsed(hs) == IF hs = <<>> THEN DefaultStepLens ELSE hs

\* analyse_step_len(f, method, a, b, t0, y0, *h, **params) of analysis.py;
\* p holds f, a, b, t0, y0 and params, hs is h
AnalyseStepLen(m, p, hs) ==
    LET hh    == StepLensUsed(hs)
        space == hh[Len(hh)]
    IN  IF space = 0 THEN NoTable("ZeroDivisionError")
        ELSE Columns([status |-> "ok",
                      t |-> Linspace(p.a, p.b,
                                     RoundHalfEven(p.b - p.a, space) + 1),
                      cols |-> <<>>],
                     m, p, hh, 1, space)

\* the tuples *h: up to MaxCols positive step lengths
StepLenTuples ==
    UNION {[1..n -> PosStepLens] : n \in 0..MaxCols}

(* ------------------------------- state -------------------------------- *)
\* pc is "idle" before the call and "returned" or "raised" after it; call
\* names the function called, method and f .. epochs are its arguments
\* (h is a number for a solver and the tuple *h for the harness), result is
\* what it gave back.
Init ==
    /\ pc = "idle"
    /\ call = "none"
    /\ method = "none"
    /\ f = [kind |-> "const", c |-> 0]
    /\ a = 0 /\ b = 0 /\ t0 = 0 /\ y0 = 0 /\ h = 0
    /\ threshold = 0 /\ epochs = 0
    /\ result = Raised("none")

\* the state after the call method(fn, aa, bb, tt, yy, hh, thr, ep)
Call(m, fn, aa, bb, tt, yy, hh, thr, ep) ==
    \E r \in {Solver(m, Args(fn, aa, bb, tt, yy, hh, thr, ep))} :
        /\ call' = "solver"
        /\ method' = m
        /\ f' = fn /\ a' = aa /\ b' = bb /\ t0' = tt /\ y0' = yy /\ h' = hh
        /\ threshold' = thr /\ epochs' = ep
        /\ result' = r
        /\ pc' = IF r.status = "ok" THEN "returned" ELSE "raised"

euler_explicit ==
    /\ pc = "idle"
    /\ \E fn \in Derivatives, aa \in Lefts, bb \in Times, tt \in Times,
          yy \in Y0s, hh \in StepLens :
            aa <= bb /\ Call("euler_explicit", fn, aa, bb, tt, yy, hh, 0, 0)

euler_implicit ==
    /\ pc = "idle"
    /\ \E fn \in Derivatives, aa \in Lefts, bb \in Times, tt \in Times,
          yy \in Y0s, hh \in StepLens, thr \in Thresholds, ep \in Epochs :
            aa <= bb /\ Call("euler_implicit", fn, aa, bb, tt, yy, hh, thr, ep)

euler_trapezium ==
    /\ pc = "idle"
    /\ \E fn \in Derivatives, aa \in Lefts, bb \in Times, tt \in Times,
          yy \in Y0s, hh \in StepLens, thr \in Thresholds, ep \in Epochs :
            aa <= bb /\ Call("euler_trapezium", fn, aa, bb, tt, yy, hh, thr, ep)

euler_improved ==
    /\ pc = "idle"
    /\ \E fn \in Derivatives, aa \in Lefts, bb \in Times, tt \in Times,
          yy \in Y0s, hh \in StepLens :
            aa <= bb /\ Call("euler_improved", fn, aa, bb, tt, yy, hh, 0, 0)

\* the solver-specific **params the harness passes on: none for the two
\* solvers that take none
ParamsOf(m) ==
    IF m \in Iterative THEN Thresholds \X Epochs ELSE {<<0, 0>>}

analyse_step_len ==
    /\ pc = "idle"
    /\ \E m \in Methods, fn \in Derivatives, aa \in Lefts, bb \in Times,
          tt \in Times, yy \in Y0s, hs \in StepLenTuples :
         \E params \in ParamsOf(m) :
           \E r \in {AnalyseStepLen(m, Args(fn, aa, bb, tt, yy, 0,
                                            params[1], params[2]), hs)} :
             /\ aa <= bb
             /\ call' = "analyse_step_len"
             /\ method' = m
             /\ f' = fn /\ a' = aa /\ b' = bb /\ t0' = tt /\ y0' = yy
             /\ h' = hs
             /\ threshold' = params[1] /\ epochs' = params[2]
             /\ result' = r
             /\ pc' = IF r.status = "ok" THEN "returned" ELSE "raised"

Next == euler_explicit \/ euler_implicit \/ euler_trapezium \/ euler_improved

\* calls of the solvers
Spec == Init /\ [][Next]_vars

\* calls of the harness
HarnessSpec == Init /\ [][analyse_step_len]_vars

(* ============================== claims ================================ *)
\* the arguments of the call made, with step length hi
P(hi) == Args(f, a, b, t0, y0, hi, threshold, epochs)

InSpan == a <= t0 /\ t0 <= b

StrictlyIncreasing(s) == \A i \in 1..(Len(s) - 1) : s[i] < s[i + 1]

\* the (t, y) samples of a trajectory, and those at or after time t
Samples(r) == [i \in 1..Len(r.t) |-> <<r.t[i], r.y[i]>>]
SamplesFrom(r, t) == SelectSeq(Samples(r), LAMBDA q : q[1] >= t)

\* the loop passes of the call made that ran in direction d
Passes(d) == {i \in DOMAIN result.steps : result.steps[i].d = d}

(* ------------------------------- C1 ----------------------------------- *)
\* C1: a solver called with a <= t0 <= b and h > 0 returns a strictly
\* increasing t-sequence of round((t0-a)/h) + 1 + round((b-t0)/h) samples
\* whose first element is within h of a and whose last is within h of b.
C1_EndsWithinStep ==
    (call = "solver" /\ InSpan /\ h > 0) =>
        /\ pc = "returned"
        /\ Len(result.t) =
               RoundHalfEven(t0 - a, h) + 1 + RoundHalfEven(b - t0, h)
        /\ StrictlyIncreasing(result.t)
        /\ Abs(result.t[1] - a) <= h
        /\ Abs(result.t[Len(result.t)] - b) <= h

\* a call from an interior t0 with two or more backward steps, a forward
\* step, and a first sample that is not a
C1_Witness ==
    /\ call = "solver" /\ pc = "returned" /\ h > 0
    /\ a < t0 /\ t0 < b
    /\ Cardinality(Passes(-1)) >= 2
    /\ Cardinality(Passes(1)) >= 1
    /\ result.t[1] # a

(* ------------------------------- C2 ----------------------------------- *)
\* C2: for a < t0 < b and h > 0, the samples with t >= t0 of the returned
\* trajectory are the whole trajectory of the same solver called with a
\* replaced by t0.
C2_ForwardIndependent ==
    (call = "solver" /\ pc = "returned" /\ a < t0 /\ t0 < b /\ h > 0) =>
        SamplesFrom(result, t0)
            = Samples(Solver(method, [P(h) EXCEPT !.a = t0]))

\* an iterative solver on f = -y with backward steps and two or more
\* forward steps
C2_Witness ==
    /\ call = "solver" /\ pc = "returned" /\ h > 0
    /\ a < t0 /\ t0 < b
    /\ method \in Iterative /\ f.kind = "decay"
    /\ Cardinality(Passes(-1)) >= 1
    /\ Cardinality(Passes(1)) >= 2

(* ------------------------------- C3 ----------------------------------- *)
\* C3: for a constant derivative f(t, y) = c, a <= t0 <= b, h > 0 and a
\* positive threshold, every sample of every solver is
\* y_k = y0 + c * (t_k - t0).
C3_ConstantExact ==
    (/\ call = "solver" /\ f.kind = "const" /\ InSpan /\ h > 0
     /\ (method \in Iterative => threshold > 0)) =>
        /\ pc = "returned"
        /\ \A k \in DOMAIN result.t :
               result.y[k] = y0 + f.c * (result.t[k] - t0)

\* the trapezium solver on a nonzero constant, stepping both ways
C3_Witness ==
    /\ call = "solver" /\ pc = "returned" /\ h > 0
    /\ method = "euler_trapezium" /\ threshold > 0
    /\ f.kind = "const" /\ f.c # 0
    /\ Cardinality(Passes(-1)) >= 1
    /\ Cardinality(Passes(1)) >= 1

(* ------------------------------- C4 ----------------------------------- *)
\* C4: a call with a <= t0 <= b and h <= 0 fails before anything is
\* computed: f is never evaluated and no trajectory is returned.
C4_NonPositiveStepFails ==
    (call = "solver" /\ InSpan /\ h <= 0) =>
        /\ pc = "raised"
        /\ result.evals = 0
        /\ result.t = <<>>

(* ------------------------------- C5 ----------------------------------- *)
\* C5 as stated: for a <= t0 <= b and h > 0 every sample time lies in
\* [a, b].
C5_InsideSpan ==
    (call = "solver" /\ InSpan /\ h > 0) =>
        /\ pc = "returned"
        /\ \A k \in DOMAIN result.t : a <= result.t[k] /\ result.t[k] <= b

\* C5 as amended: every sample time is t0 + k*h and lies in
\* [a - h/2, b + h/2]; the first sample is within h/2 of a and the last
\* within h/2 of b, on either side of the bound.
C5_WithinHalfStep ==
    (call = "solver" /\ InSpan /\ h > 0) =>
        /\ pc = "returned"
        /\ \A k \in DOMAIN result.t :
               /\ (result.t[k] - t0) % h = 0
               /\ 2 * (a - result.t[k]) <= h
               /\ 2 * (result.t[k] - b) <= h
        /\ \A k \in 1..(Len(result.t) - 1) : result.t[k + 1] - result.t[k] = h
        /\ 2 * Abs(result.t[1] - a) <= h
        /\ 2 * Abs(result.t[Len(result.t)] - b) <= h

\* a trajectory that starts before a and ends after b
C5_Witness ==
    /\ call = "solver" /\ pc = "returned" /\ h > 0 /\ InSpan
    /\ result.t[1] < a
    /\ result.t[Len(result.t)] > b

(* ------------------------------- C8 ----------------------------------- *)
\* C8: in euler_implicit and euler_trapezium the value appended by a step
\* is the last computed iterate y__ of its fixed-point loop.
C8_LastIterateAccepted ==
    (call = "solver" /\ pc = "returned" /\ method \in Iterative) =>
        \A i \in DOMAIN result.steps :
            result.steps[i].y = result.steps[i].y__

(* ------------------------------- C9 ----------------------------------- *)
\* C9: in euler_implicit and euler_trapezium every step's fixed-point loop
\* computes y__ at most epochs + 1 times, and a call with a <= t0 <= b and
\* h > 0 returns after exactly round((t0-a)/h) backward and round((b-t0)/h)
\* forward steps, raising nothing.
C9_LoopBounded ==
    (call = "solver" /\ method \in Iterative /\ InSpan /\ h > 0) =>
        /\ pc = "returned"
        /\ \A i \in DOMAIN result.steps :
               /\ result.steps[i].epoch >= 1
               /\ result.steps[i].epoch <= epochs + 1
        /\ Cardinality(Passes(-1)) = RoundHalfEven(t0 - a, h)
        /\ Cardinality(Passes(1)) = RoundHalfEven(b - t0, h)

\* a step of f = -y whose loop was stopped by the epoch cap, not by the
\* threshold, after epochs + 1 computations
C9_Witness ==
    /\ call = "solver" /\ pc = "returned" /\ method \in Iterative
    /\ f.kind = "decay" /\ epochs >= 1
    /\ \E i \in DOMAIN result.steps :
           /\ result.steps[i].epoch = epochs + 1
           /\ ~result.steps[i].converged

(* --------------------------- C6, C7, C10 ------------------------------ *)
\* the step lengths of the harness call made, and its grid resolution
H == StepLensUsed(h)
Space == H[Len(H)]

\* the values of the cells of a column that are not NaN, in row order
NonMissing(col) ==
    [k \in 1..Len(SelectSeq(col, LAMBDA c : c # NaN)) |->
        SelectSeq(col, LAMBDA c : c # NaN)[k][1]]

\* C6: in the table the harness returns, the non-missing entries of the
\* column of each step length h[i], in row order, are the y-sequence that
\* method(f, a, b, t0, y0, h[i]) returned, for any list of step lengths.
C6_ColumnIsTrajectory ==
    (call = "analyse_step_len" /\ pc = "returned") =>
        \A i \in DOMAIN H :
            NonMissing(result.cols[H[i]]) = Solver(method, P(H[i])).y

\* C7: for a <= t0 <= b and a step length h2 that is a larger multiple of
\* the grid resolution, every non-missing entry in row r of the h2 column
\* is the y that the solver called with h2 produced at the sample whose
\* time is the table's t[r].  Stated for the calls whose span b - a is a
\* whole number of grid steps, where the table's axis is a + r * space.
C7_EntryAtItsTime ==
    (/\ call = "analyse_step_len" /\ pc = "returned" /\ InSpan
     /\ (b - a) % Space = 0) =>
        \A i \in DOMAIN H :
            (H[i] > Space /\ H[i] % Space = 0) =>
                \A r \in DOMAIN result.t :
                    result.cols[H[i]][r] # NaN =>
                        \E k \in DOMAIN Solver(method, P(H[i])).t :
                            /\ Solver(method, P(H[i])).t[k] * result.t[r].den
                                   = result.t[r].num
                            /\ Cell(Solver(method, P(H[i])).y[k])
                                   = result.cols[H[i]][r]

\* C10: for a <= t0 <= b and step lengths that are all multiples of the
\* grid resolution, every row the harness writes lies in
\* 0 .. round((b-a)/space), so the call raises no IndexError.
C10_RowsInRange ==
    (/\ call = "analyse_step_len" /\ InSpan
     /\ \A i \in DOMAIN H : H[i] % Space = 0) =>
        /\ pc = "returned"
        /\ \A i \in DOMAIN H :
               \A j \in 0..(Len(Solver(method, P(H[i])).y) - 1) :
                   /\ Row(j, H[i], Space) >= 0
                   /\ Row(j, H[i], Space) <= RoundHalfEven(b - a, Space)

====
